---- MODULE Spec2Model ----
(***************************************************************************)
(* Request-admission pipeline of the x402 template service: the two        *)
(* fixed-window rate limiters, the payment gate, the idempotency ledger    *)
(* and the response observer, as wired together by buildApp.               *)
(*                                                                         *)
(* Node runs one callback at a time, so an action is one event-loop task   *)
(* of one request: the onRequest chain (Receive), the facilitator's        *)
(* verification (FacilitatorVerify), the parsed body running validation,   *)
(* preHandlers and handler (Process), the facilitator's settlement         *)
(* (FacilitatorSettle) and the onResponse hooks (Finalize).  Tasks of      *)
(* different requests interleave freely.                                   *)
(***************************************************************************)
EXTENDS Integers, Sequences, FiniteSets, TLC

(* ------------------------------ bounds -------------------------------- *)
\* requests in flight at the same time (slots are reused after finalization)
MaxInflight == 2
\* requests per behaviour
MaxRequests == 3
\* clock advances per behaviour
MaxTicks == 1
\* RATE_LIMIT_PER_MIN and RATE_LIMIT_UNPAID_PER_MIN of the modelled deployment
GlobalPerMin == 2
UnpaidPerMin == 2
\* capacity of the idempotency ledger in the modelled deployment
CacheMax == 1
\* largest limiter bound tried in the limiter-only specification, and its
\* clock advances per behaviour
MaxLimit == 3
MaxLimTicks == 3
\* saturation of the history counters
MaxCount == 2
\* requests followed by the startup and the hand-built specifications
ProbeRequests == 2
\* GET /readyz requests followed by the readiness specification
MaxReadyz == 3
\* capacity and keys of the ledger, and its clock advances per behaviour, in
\* the store-only specification
StoreMax == 2
MaxStoreTicks == 3

(* ------------------------- program constants -------------------------- *)
WINDOW_MS == 60000
TTL_MS == 600000

Clients == {"A", "B"}
NoKey == "<absent>"
\* requestContext.txHash undefined, and the transaction a settlement reports
NoTx == "<unset>"
Tx == "0xtx"
EmptyKey == ""
Keys == {"k1", "k2"}
KeyHeaders == {NoKey, EmptyKey} \cup Keys
Routes == {"/v1/echo", "/healthz"}
\* the payment evidence a request carries: nothing, x-dev-bypass: true, or a
\* payment-signature header that does not decode, decodes but does not verify,
\* or decodes and verifies
Evidence == {"none", "bypass", "malformed", "forged", "valid"}
Slots == 1..MaxInflight
\* the clock advances into the next window or just past the ledger's ttl
TickSteps == {WINDOW_MS, TTL_MS + 1}

VARIABLES
  processEnv,      \* process.env as loadConfig reads it
  ready,           \* the GET /readyz request and its probes
  ledgerOp,        \* the last call made on the idempotency store
  closed,          \* requestContext of the last request, after onResponse
  config,          \* AppConfig returned by loadConfig (ok = FALSE: it threw)
  now,             \* Date.now()
  ticks,           \* clock advances so far
  globalCounters,  \* globalLimiter.counters
  unpaidCounters,  \* unpaidLimiter.counters
  cache,           \* idempotencyStore.cache, least recently used first
  req,             \* the requests in flight, by slot
  arrived,         \* requests received so far
  commits,         \* history: markSeen calls per key
  settles,         \* history: settlements per key
  overlap,         \* history: keys carried by two requests in flight together
  dropped,         \* history: keys whose committed record expired or was evicted
  qualified,       \* history: keys of finalized monetized requests that ended
                   \* paid with a status below 400
  failed,          \* history: keys of finalized monetized requests that ended
                   \* unpaid or with a status of 400 or above
  attempts,        \* history: monetized requests per client that reached the
                   \* unpaid-attempt limiter in the client's current window
  lastCall,        \* history: the last consume call of the limiter-only spec
  admitted         \* history: the consume calls per key in the key's current
                   \* window (n, saturating) and how many returned true (ok)

vars == <<processEnv, ready, ledgerOp, closed, config, now, ticks, globalCounters, unpaidCounters, cache, req, arrived,
          commits, settles, overlap, dropped, qualified, failed, attempts,
          lastCall, admitted>>

(* ----------------------------- config.ts ------------------------------ *)
\* the environments tried: NODE_ENV and the raw X402_DEV_BYPASS string
NodeEnvs == {"production", "development"}
BypassRaw == {"", "true", "TRUE", "false"}
Envs == [NODE_ENV : NodeEnvs, X402_DEV_BYPASS : BypassRaw]

ToLowerCase(raw) == IF raw = "TRUE" THEN "true" ELSE raw

\* parseBoolEnv comparing the raw string without lowering its case
ParseBoolEnvCaseSensitive(raw, fallback) ==
  IF raw = "" THEN fallback ELSE raw = "true"

\* parseBoolEnv(env, "X402_DEV_BYPASS", fallback)
ParseBoolEnv(raw, fallback) ==
  IF raw = "" THEN fallback ELSE ToLowerCase(raw) = "true"

\* loadConfig: ok = FALSE stands for the thrown Error
LoadConfig(env) ==
  LET nodeEnv == env.NODE_ENV
      x402DevBypass == ParseBoolEnv(env.X402_DEV_BYPASS, FALSE)
  IN IF nodeEnv = "production" /\ x402DevBypass
       THEN [ok |-> FALSE, nodeEnv |-> nodeEnv, x402DevBypass |-> x402DevBypass,
             rateLimitPerMin |-> GlobalPerMin, rateLimitUnpaidPerMin |-> UnpaidPerMin]
       ELSE [ok |-> TRUE, nodeEnv |-> nodeEnv, x402DevBypass |-> x402DevBypass,
             rateLimitPerMin |-> GlobalPerMin, rateLimitUnpaidPerMin |-> UnpaidPerMin]

\* buildApp: const x402Bundle = config.x402DevBypass ? undefined : createX402Middleware(config)
HasX402Middleware(cfg) == ~cfg.x402DevBypass

(* ----------------------- FixedWindowLimiter --------------------------- *)
\* a key with no entry in the counters Map
NoCounter == [windowStart |-> -1, count |-> 0]

WindowStart(t) == (t \div WINDOW_MS) * WINDOW_MS

\* consume admitting within the window without storing the new count
ConsumeLosesIncrement(counters, key, maxPerMinute, t) ==
  LET windowStart == WindowStart(t)
      existing == counters[key]
  IN IF existing = NoCounter \/ existing.windowStart # windowStart
       THEN [ok |-> TRUE,
             counters |-> [counters EXCEPT
                             ![key] = [windowStart |-> windowStart, count |-> 1]]]
     ELSE IF existing.count >= maxPerMinute
       THEN [ok |-> FALSE, counters |-> counters]
     ELSE [ok |-> TRUE, counters |-> counters]

\* consume counting the rejected call as well
ConsumeCountsRejected(counters, key, maxPerMinute, t) ==
  LET windowStart == WindowStart(t)
      existing == counters[key]
  IN IF existing = NoCounter \/ existing.windowStart # windowStart
       THEN [ok |-> TRUE,
             counters |-> [counters EXCEPT
                             ![key] = [windowStart |-> windowStart, count |-> 1]]]
     ELSE [ok |-> ~(existing.count >= maxPerMinute),
           counters |-> [counters EXCEPT ![key].count = existing.count + 1]]

\* consume keeping one counter for all keys
ConsumeSharedBucket(counters, key, maxPerMinute, t) ==
  LET windowStart == WindowStart(t)
      existing == counters[key]
      all(counter) == [k \in DOMAIN counters |-> counter]
  IN IF existing = NoCounter \/ existing.windowStart # windowStart
       THEN [ok |-> TRUE, counters |-> all([windowStart |-> windowStart, count |-> 1])]
     ELSE IF existing.count >= maxPerMinute
       THEN [ok |-> FALSE, counters |-> counters]
     ELSE [ok |-> TRUE,
           counters |-> all([windowStart |-> windowStart, count |-> existing.count + 1])]

\* consume with the bound compared by > instead of >=
ConsumeOffByOne(counters, key, maxPerMinute, t) ==
  LET windowStart == WindowStart(t)
      existing == counters[key]
  IN IF existing = NoCounter \/ existing.windowStart # windowStart
       THEN [ok |-> TRUE,
             counters |-> [counters EXCEPT
                             ![key] = [windowStart |-> windowStart, count |-> 1]]]
     ELSE IF existing.count > maxPerMinute
       THEN [ok |-> FALSE, counters |-> counters]
     ELSE [ok |-> TRUE,
           counters |-> [counters EXCEPT ![key].count = existing.count + 1]]

\* consume with the bound checked before the window is compared
ConsumeChecksLimitFirst(counters, key, maxPerMinute, t) ==
  LET windowStart == WindowStart(t)
      existing == counters[key]
  IN IF existing # NoCounter /\ existing.count >= maxPerMinute
       THEN [ok |-> FALSE, counters |-> counters]
     ELSE IF existing = NoCounter \/ existing.windowStart # windowStart
       THEN [ok |-> TRUE,
             counters |-> [counters EXCEPT
                             ![key] = [windowStart |-> windowStart, count |-> 1]]]
     ELSE [ok |-> TRUE,
           counters |-> [counters EXCEPT ![key].count = existing.count + 1]]

\* FixedWindowLimiter.consume: the verdict and the counters Map after the call
Consume(counters, key, maxPerMinute, t) ==
  LET windowStart == WindowStart(t)
      existing == counters[key]
  IN IF existing = NoCounter \/ existing.windowStart # windowStart
       THEN [ok |-> TRUE,
             counters |-> [counters EXCEPT
                             ![key] = [windowStart |-> windowStart, count |-> 1]]]
     ELSE IF existing.count >= maxPerMinute
       THEN [ok |-> FALSE, counters |-> counters]
     ELSE [ok |-> TRUE,
           counters |-> [counters EXCEPT ![key].count = existing.count + 1]]

(* ------------------------- IdempotencyStore --------------------------- *)
\* the cache is an LRUCache({ ttl: ttlMs, max }): a record is stale once it is
\* older than the ttl, has() neither refreshes nor moves a record, set() puts
\* the record last with a fresh start time and, when the cache is full and
\* the key is new, evicts the first (least recently used) record
CacheIndex(c, key) == {i \in 1..Len(c) : c[i].key = key}

CacheRemove(c, key) == SelectSeq(c, LAMBDA e : e.key # key)

\* has with the ttl taken in seconds
StoreHasTtlSeconds(c, key, t) ==
  \E i \in CacheIndex(c, key) : ~(t - c[i].createdAt > TTL_MS \div 1000)

\* IdempotencyStore.has
StoreHas(c, key, t) ==
  \E i \in CacheIndex(c, key) : ~(t - c[i].createdAt > TTL_MS)

\* set on a full cache refusing the new record
StoreSetKeepsOld(c, key, t, max) ==
  LET entry == [key |-> key, createdAt |-> t]
  IN IF CacheIndex(c, key) # {}
       THEN Append(CacheRemove(c, key), entry)
     ELSE IF Len(c) >= max
       THEN c
     ELSE Append(c, entry)

\* set on a full cache evicting the most recently written record
StoreSetEvictsNewest(c, key, t, max) ==
  LET entry == [key |-> key, createdAt |-> t]
  IN IF CacheIndex(c, key) # {}
       THEN Append(CacheRemove(c, key), entry)
     ELSE IF Len(c) >= max
       THEN Append(SubSeq(c, 1, Len(c) - 1), entry)
     ELSE Append(c, entry)

\* this.cache.set(key, {key, createdAt}) on a cache constructed with max
StoreSet(c, key, t, max) ==
  LET entry == [key |-> key, createdAt |-> t]
  IN IF CacheIndex(c, key) # {}
       THEN Append(CacheRemove(c, key), entry)
     ELSE IF Len(c) >= max
       THEN Append(Tail(c), entry)
     ELSE Append(c, entry)

\* IdempotencyStore.markSeen
StoreMarkSeen(c, key, t) == StoreSet(c, key, t, CacheMax)

\* has() renewing the record it finds
StoreTouchOnHas(c, key, t) ==
  IF StoreHas(c, key, t)
    THEN Append(CacheRemove(c, key), [key |-> key, createdAt |-> t])
    ELSE c

\* has() counting as a use: the record it finds becomes the most recent
StoreHasMovesToTail(c, key, t) ==
  IF StoreHas(c, key, t)
    THEN LET i == CHOOSE i \in CacheIndex(c, key) : TRUE
         IN Append(CacheRemove(c, key), c[i])
    ELSE c

\* the cache after this.cache.has(key)
StoreAfterHas(c, key, t) == c

\* no call made on the store yet. last: when each key was last committed;
\* gone: the keys evicted since; looked: the keys found by has() since
NoOp ==
  [op |-> "none", key |-> "", at |-> 0, seen |-> FALSE, before |-> <<>>,
   last |-> <<>>, gone |-> {}, looked |-> {}]

(* --------------------------- request record --------------------------- *)
\* request.requestContext as registerRequestContext's onRequest hook makes it
NewContext ==
  [paid |-> FALSE, paidMode |-> "unset", idempotencyKey |-> NoKey, txHash |-> NoTx]

\* no payment context attached to the raw request
NoRaw == [set |-> FALSE, paid |-> FALSE, paidMode |-> "unset", idempotencyKey |-> NoKey]

IdleReq ==
  [pc |-> "idle", client |-> "A", route |-> "/healthz", key |-> NoKey,
   pay |-> "none", ctx |-> NewContext, raw |-> NoRaw, status |-> 0,
   code |-> "", stages |-> <<>>, prior |-> 0, replay |-> FALSE,
   hint |-> "", accepts |-> FALSE, receiptKey |-> "", sent |-> 0,
   paymentResponse |-> "", receiptTx |-> "", fault |-> ""]

Monetized(route) == route = "/v1/echo"

Truthy(key) == key # NoKey /\ key # EmptyKey

Ran(rq, stage) == \E i \in 1..Len(rq.stages) : rq.stages[i] = stage

Stage(rq, stage) == [rq EXCEPT !.stages = Append(@, stage)]

\* a response goes out to the client
Wire(rq) == [rq EXCEPT !.sent = @ + 1]

\* a stage writing a response without the request being halted
ReplyNoHalt(rq, status, code) ==
  Wire([rq EXCEPT !.status = status, !.code = code])

\* a response written by a stage: the pipeline halts and the response finishes
Reply(rq, status, code) ==
  Wire([rq EXCEPT !.status = status, !.code = code, !.pc = "finish"])

\* errorPayload: the uniform envelope carries a code and a message and no
\* accepted-payment instructions
ErrorPayload(code) == [code |-> code, accepts |-> FALSE]

\* the 402 body of paymentMiddleware: its own payload (no envelope code), taken
\* here as listing the accepted payments
X402Body == [code |-> "", accepts |-> TRUE]

\* normalize402Json replaces json() of the response object: a body sent with
\* status 402 is replaced by errorPayload("PAYMENT_REQUIRED", message)
Normalize402Json(status, body) ==
  IF status = 402 THEN ErrorPayload("PAYMENT_REQUIRED") ELSE body

\* expressRes.status(status); expressRes.json(body)
Json(rq, status, body) ==
  [Reply(rq, status, body.code) EXCEPT !.accepts = body.accepts]

(* --------------------------- onRequest chain -------------------------- *)
\* registerRequestContext, onRequest hook
OnRequestContext(client, route, key, pay) ==
  [IdleReq EXCEPT !.pc = "onRequest", !.client = client, !.route = route,
                  !.key = key, !.pay = pay, !.stages = <<"context">>]

\* the global hook writing its 429 without halting the request
GlobalOnRequestContinues(rq, counters, cfg, t) ==
  LET allowed == Consume(counters, rq.client, cfg.rateLimitPerMin, t)
      ran == Stage(rq, "global")
  IN [rq |-> IF allowed.ok THEN ran
             ELSE [ran EXCEPT !.status = 429, !.code = "RATE_LIMITED"],
      counters |-> allowed.counters]

\* rateLimit.globalOnRequest
GlobalOnRequest(rq, counters, cfg, t) ==
  LET allowed == Consume(counters, rq.client, cfg.rateLimitPerMin, t)
      ran == Stage(rq, "global")
  IN [rq |-> IF allowed.ok THEN ran ELSE Reply(ran, 429, "RATE_LIMITED"),
      counters |-> allowed.counters]

\* the unpaid-attempt middleware without the path test
UnpaidAttemptMiddlewareAnyPath(rq, counters, cfg, t) ==
  LET allowed == Consume(counters, rq.client, cfg.rateLimitUnpaidPerMin, t)
      ran == Stage(rq, "unpaid")
  IN [rq |-> IF allowed.ok THEN ran ELSE Reply(ran, 429, "RATE_LIMITED"),
      counters |-> allowed.counters]

\* rateLimit.unpaidAttemptMiddleware
UnpaidAttemptMiddleware(rq, counters, cfg, t) ==
  IF ~Monetized(rq.route)
    THEN [rq |-> rq, counters |-> counters]
    ELSE LET allowed == Consume(counters, rq.client, cfg.rateLimitUnpaidPerMin, t)
             ran == Stage(rq, "unpaid")
         IN [rq |-> IF allowed.ok THEN ran ELSE Reply(ran, 429, "RATE_LIMITED"),
             counters |-> allowed.counters]

\* decodePaymentSignatureHeader succeeds on the header the request carries
Decodes(pay) == pay \in {"forged", "valid"}

\* the gate taking the bypass branch without looking at nodeEnv
RequirePaymentIgnoresNodeEnv(rq, cfg) ==
  IF ~Monetized(rq.route) THEN [rq EXCEPT !.pc = "body"]
  ELSE
    LET ran == Stage(rq, "gate")
    IN IF cfg.x402DevBypass
         THEN IF rq.pay = "bypass"
                THEN [ran EXCEPT !.raw = [set |-> TRUE, paid |-> TRUE,
                                          paidMode |-> "dev_bypass",
                                          idempotencyKey |-> rq.key],
                                 !.pc = "body"]
                ELSE [Json(ran, 402, ErrorPayload("PAYMENT_REQUIRED")) EXCEPT
                        !.hint = "dev-bypass"]
       ELSE IF rq.pay \in {"none", "bypass"}
         THEN [ran EXCEPT !.pc = "verify"]
       ELSE IF Decodes(rq.pay)
         THEN [ran EXCEPT !.raw = [set |-> TRUE, paid |-> TRUE,
                                   paidMode |-> "x402",
                                   idempotencyKey |-> rq.key],
                          !.pc = "verify"]
       ELSE Json(ran, 402, Normalize402Json(402, ErrorPayload("PAYMENT_INVALID")))

\* the gate admitting every monetized request as a bypass
RequirePaymentAdmitsAll(rq, cfg) ==
  IF ~Monetized(rq.route) THEN [rq EXCEPT !.pc = "body"]
  ELSE [Stage(rq, "gate") EXCEPT
          !.raw = [set |-> TRUE, paid |-> TRUE, paidMode |-> "dev_bypass",
                   idempotencyKey |-> rq.key],
          !.pc = "body"]

\* createRequirePaymentMiddleware, up to the call of options.x402Middleware
RequirePayment(rq, cfg) ==
  IF ~Monetized(rq.route) THEN [rq EXCEPT !.pc = "body"]
  ELSE
    LET ran == Stage(rq, "gate")
        idempotencyKey == rq.key
    IN IF cfg.x402DevBypass /\ cfg.nodeEnv # "production"
         THEN IF rq.pay = "bypass"
                THEN [ran EXCEPT !.raw = [set |-> TRUE, paid |-> TRUE,
                                          paidMode |-> "dev_bypass",
                                          idempotencyKey |-> idempotencyKey],
                                 !.pc = "body"]
                ELSE [Json(ran, 402, ErrorPayload("PAYMENT_REQUIRED")) EXCEPT
                        !.hint = "dev-bypass"]
       ELSE IF ~HasX402Middleware(cfg)
         THEN Json(ran, 500, ErrorPayload("INTERNAL_ERROR"))
       ELSE IF rq.pay \in {"none", "bypass"}
         THEN [ran EXCEPT !.pc = "verify"]
       ELSE IF Decodes(rq.pay)
         THEN [ran EXCEPT !.raw = [set |-> TRUE, paid |-> TRUE,
                                   paidMode |-> "x402",
                                   idempotencyKey |-> idempotencyKey],
                          !.pc = "verify"]
       ELSE Json(ran, 402, Normalize402Json(402, ErrorPayload("PAYMENT_INVALID")))

\* the facilitator middleware taken as wrapping every response
UsesFacilitatorAlways(cfg) == TRUE

\* the gate hands the request to the facilitator middleware
UsesFacilitator(cfg) ==
  ~(cfg.x402DevBypass /\ cfg.nodeEnv # "production") /\ HasX402Middleware(cfg)

(* ------------------ validation, preHandlers and handler --------------- *)
\* app.setErrorHandler: kind is "AppError", "FST_ERR_VALIDATION" or "other"
ErrorHandler(rq, error) ==
  LET caught == [rq EXCEPT !.fault = error.kind]
  IN IF error.kind = "AppError" THEN Reply(caught, error.statusCode, error.code)
     ELSE IF error.kind = "FST_ERR_VALIDATION" THEN Reply(caught, 400, "INTERNAL_ERROR")
     ELSE Reply(caught, 500, "INTERNAL_ERROR")

ValidationError == [kind |-> "FST_ERR_VALIDATION", statusCode |-> 400, code |-> ""]

\* the header schema of POST /v1/echo: "idempotency-key" required, minLength 1
Validate(rq) ==
  IF ~Monetized(rq.route) THEN rq
  ELSE LET ran == Stage(rq, "validate")
       IN IF Truthy(rq.key) THEN ran ELSE ErrorHandler(ran, ValidationError)

\* the payment context copied without its mode
ApplyRawPaymentContextPaidOnly(rq) ==
  IF ~rq.raw.set THEN rq
  ELSE [rq EXCEPT !.ctx.paid = rq.raw.paid,
                  !.ctx.idempotencyKey = rq.raw.idempotencyKey]

\* applyRawPaymentContext
ApplyRawPaymentContext(rq) ==
  IF ~rq.raw.set THEN rq
  ELSE [rq EXCEPT !.ctx.paid = rq.raw.paid, !.ctx.paidMode = rq.raw.paidMode,
                  !.ctx.idempotencyKey = rq.raw.idempotencyKey]

\* the preHandler hook taking a settlement reference from the credential
ContextPreHandlerWritesTx(rq) ==
  LET applied == ApplyRawPaymentContext(rq)
      keyed == IF rq.key # NoKey
                 THEN [applied EXCEPT !.ctx.idempotencyKey = rq.key]
                 ELSE applied
  IN IF rq.raw.set THEN [keyed EXCEPT !.ctx.txHash = Tx] ELSE keyed

\* registerRequestContext, preHandler hook
ContextPreHandler(rq) ==
  LET applied == ApplyRawPaymentContext(rq)
  IN IF rq.key # NoKey
       THEN [applied EXCEPT !.ctx.idempotencyKey = rq.key]
       ELSE applied

\* the preHandler without the store lookup
PreHandlerNoReplay(rq, c, t) ==
  LET ran == Stage(rq, "precheck")
  IN IF ~Truthy(rq.key)
       THEN Reply(ran, 400, "IDEMPOTENCY_REQUIRED")
       ELSE [ran EXCEPT !.ctx.idempotencyKey = rq.key]

\* the preHandler answering a replay for every keyed request
PreHandlerRejectsKeyed(rq, c, t) ==
  LET ran == Stage(rq, "precheck")
  IN IF ~Truthy(rq.key)
       THEN Reply(ran, 400, "IDEMPOTENCY_REQUIRED")
       ELSE Reply([ran EXCEPT !.ctx.idempotencyKey = rq.key], 409, "IDEMPOTENCY_REPLAY")

\* createIdempotencyPreHandler
IdempotencyPreHandler(rq, c, t) ==
  LET ran == Stage(rq, "precheck")
  IN IF ~Truthy(rq.key)
       THEN Reply(ran, 400, "IDEMPOTENCY_REQUIRED")
     ELSE LET keyed == [ran EXCEPT !.ctx.idempotencyKey = rq.key]
          IN IF StoreHas(c, rq.key, t)
               THEN Reply(keyed, 409, "IDEMPOTENCY_REPLAY")
               ELSE keyed

\* the route handlers: POST /v1/echo copies the payment context and answers
\* 200 with data and receipt; GET /healthz answers 200
Handler(rq) ==
  LET ran == Stage(rq, "handler")
      copied == IF Monetized(rq.route) /\ rq.raw.set
                  THEN [ran EXCEPT !.ctx.paid = rq.raw.paid,
                                   !.ctx.paidMode = rq.raw.paidMode]
                  ELSE ran
  IN [copied EXCEPT !.status = 200, !.code = "",
                    !.receiptKey = IF copied.ctx.idempotencyKey = NoKey
                                     THEN "" ELSE copied.ctx.idempotencyKey,
                    !.receiptTx = IF copied.ctx.txHash = NoTx
                                    THEN "" ELSE copied.ctx.txHash]

\* the route run without the idempotency preHandler
RunRouteSkipsPreCheck(rq, c, t) ==
  LET v == Validate(rq)
      h == ContextPreHandler(v)
  IN IF v.pc = "finish" THEN v ELSE Handler(h)

\* the route run without halting on a response already sent
RunRouteNoHalt(rq, c, t) ==
  LET v == Validate(rq)
      h == ContextPreHandler(v)
      i == IF Monetized(h.route) THEN IdempotencyPreHandler(h, c, t) ELSE h
  IN Handler(i)

\* validation, the preHandler hooks in registration order, then the handler
RunRoute(rq, c, t) ==
  LET v == Validate(rq)
      h == ContextPreHandler(v)
      i == IF Monetized(h.route) THEN IdempotencyPreHandler(h, c, t) ELSE h
  IN IF v.pc = "finish" THEN v
     ELSE IF i.pc = "finish" THEN i
     ELSE Handler(i)

(* --------------------------- onResponse hook -------------------------- *)
\* the hook without recordUnpaidAttempt
OnResponseNoCharge(rq, counters, c, cfg, t) ==
  IF ~Monetized(rq.route) \/ rq.status = 402
    THEN [counters |-> counters, cache |-> c, marked |-> NoKey]
  ELSE IF rq.status < 400 /\ rq.ctx.paid /\ Truthy(rq.ctx.idempotencyKey)
    THEN [counters |-> counters,
          cache |-> StoreMarkSeen(c, rq.ctx.idempotencyKey, t),
          marked |-> rq.ctx.idempotencyKey]
  ELSE [counters |-> counters, cache |-> c, marked |-> NoKey]

\* the hook charging the unpaid-attempt limiter for every error status
OnResponseChargesOnError(rq, counters, c, cfg, t) ==
  IF ~Monetized(rq.route)
    THEN [counters |-> counters, cache |-> c, marked |-> NoKey]
  ELSE IF rq.status >= 400
    THEN [counters |-> Consume(counters, rq.client, cfg.rateLimitUnpaidPerMin, t).counters,
          cache |-> c, marked |-> NoKey]
  ELSE IF rq.ctx.paid /\ Truthy(rq.ctx.idempotencyKey)
    THEN [counters |-> counters,
          cache |-> StoreMarkSeen(c, rq.ctx.idempotencyKey, t),
          marked |-> rq.ctx.idempotencyKey]
  ELSE [counters |-> counters, cache |-> c, marked |-> NoKey]

\* the hook with the commit tried before the 402 branch and for any status
OnResponseCommitsOn402(rq, counters, c, cfg, t) ==
  IF ~Monetized(rq.route)
    THEN [counters |-> counters, cache |-> c, marked |-> NoKey]
  ELSE IF rq.ctx.paid /\ Truthy(rq.ctx.idempotencyKey)
    THEN [counters |-> counters,
          cache |-> StoreMarkSeen(c, rq.ctx.idempotencyKey, t),
          marked |-> rq.ctx.idempotencyKey]
  ELSE IF rq.status = 402
    THEN [counters |-> Consume(counters, rq.client, cfg.rateLimitUnpaidPerMin, t).counters,
          cache |-> c, marked |-> NoKey]
  ELSE [counters |-> counters, cache |-> c, marked |-> NoKey]

\* the hook without the statusCode < 400 condition
OnResponseIgnoresStatus(rq, counters, c, cfg, t) ==
  IF ~Monetized(rq.route)
    THEN [counters |-> counters, cache |-> c, marked |-> NoKey]
  ELSE IF rq.status = 402
    THEN [counters |-> Consume(counters, rq.client, cfg.rateLimitUnpaidPerMin, t).counters,
          cache |-> c, marked |-> NoKey]
  ELSE IF rq.ctx.paid /\ Truthy(rq.ctx.idempotencyKey)
    THEN [counters |-> counters,
          cache |-> StoreMarkSeen(c, rq.ctx.idempotencyKey, t),
          marked |-> rq.ctx.idempotencyKey]
  ELSE [counters |-> counters, cache |-> c, marked |-> NoKey]

\* buildApp's onResponse hook: the counters and the cache after it, and the key
\* markSeen was called with (NoKey: it was not called)
OnResponse(rq, counters, c, cfg, t) ==
  IF ~Monetized(rq.route)
    THEN [counters |-> counters, cache |-> c, marked |-> NoKey]
  ELSE IF rq.status = 402
    THEN [counters |-> Consume(counters, rq.client, cfg.rateLimitUnpaidPerMin, t).counters,
          cache |-> c, marked |-> NoKey]
  ELSE IF rq.status < 400 /\ rq.ctx.paid /\ Truthy(rq.ctx.idempotencyKey)
    THEN [counters |-> counters,
          cache |-> StoreMarkSeen(c, rq.ctx.idempotencyKey, t),
          marked |-> rq.ctx.idempotencyKey]
  ELSE [counters |-> counters, cache |-> c, marked |-> NoKey]

\* registerRequestContext, onResponse hook: the context it leaves
ContextOnResponse(rq) ==
  IF rq.paymentResponse # ""
    THEN [rq.ctx EXCEPT !.txHash = rq.paymentResponse]
    ELSE rq.ctx

(* --------------------- facilitator middleware ------------------------- *)
\* options.x402Middleware (paymentMiddleware of @x402/express) on entry: a
\* request with no credential is answered 402 with the payment instructions, a
\* credential is verified, and only a verified request is passed on
X402Verify(rq) ==
  IF ~Decodes(rq.pay) THEN Json(rq, 402, Normalize402Json(402, X402Body))
  ELSE LET ran == Stage(rq, "verify")
       IN IF rq.pay = "valid"
            THEN [ran EXCEPT !.pc = "body"]
            ELSE Json(ran, 402, Normalize402Json(402, X402Body))

\* options.x402Middleware once the handler has ended the response it holds
\* back: a response of 400 or above is released unsettled, otherwise the
\* payment is settled, the held response goes out after a successful
\* settlement and a failed settlement sends a 402 in its place
X402Release(rq) ==
  IF rq.status >= 400 THEN [rq EXCEPT !.pc = "finish"]
  ELSE [rq EXCEPT !.pc = "settle"]

X402Settle(rq, success) ==
  LET ran == Stage(rq, "settle")
  IN IF success THEN Wire([ran EXCEPT !.pc = "finish", !.paymentResponse = Tx])
     ELSE Json(ran, 402, Normalize402Json(402, X402Body))

(* ------------------------------ history ------------------------------- *)
Bump(n) == IF n < MaxCount THEN n + 1 ELSE n

WindowOf(t) == t \div WINDOW_MS

NoAttempts == [window |-> -1, n |-> 0]

\* the requests of a client that reached the unpaid-attempt limiter so far in
\* the client's current window
PriorAttempts(client, t) ==
  IF attempts[client].window = WindowOf(t) THEN attempts[client].n ELSE 0

\* a record of the key is in the ledger and no older than the ttl
LiveIn(c, key, t) ==
  \E i \in 1..Len(c) : c[i].key = key /\ t - c[i].createdAt <= TTL_MS

Dropped(c, marks, t) == {k \in Keys : marks[k] > 0 /\ ~LiveIn(c, k, t)}

InFlight(s) == req[s].pc # "idle"

\* the requests tried: in development the gate reads x-dev-bypass in bypass
\* mode only and the payment header in facilitator mode only; in production
\* every kind of evidence is tried
EvidenceFor(cfg) ==
  IF cfg.nodeEnv = "production" THEN Evidence
  ELSE IF cfg.x402DevBypass THEN {"none", "bypass"}
  ELSE {"none", "malformed", "forged", "valid"}

\* client A tries every key header with every evidence (the empty key with
\* admitted evidence only) and the non-monetized route, bare or with a key and
\* payment evidence; client B tries unpaid attempts
Inputs(cfg) ==
  {in \in [client : Clients, route : Routes, key : KeyHeaders, pay : EvidenceFor(cfg)] :
     /\ ~Monetized(in.route) =>
          /\ in.client = "A"
          /\ \/ in.key = NoKey /\ in.pay = "none"
             \/ in.key = "k1" /\ in.pay \in {"bypass", "valid"}
     /\ in.key = EmptyKey => in.pay \in {"bypass", "valid"}
     /\ in.client = "B" => Monetized(in.route) /\ in.key = "k1" /\ in.pay = "none"}

\* the deployments tried by the pipeline specification
PipelineEnvs == {env \in Envs : env.NODE_ENV = "development"
                                /\ env.X402_DEV_BYPASS \in {"true", "false"}}

NoCall == [called |-> FALSE, key |-> "A", at |-> 0, ok |-> FALSE, index |-> 0,
           fresh |-> FALSE, before |-> NoCounter]

NoCalls == [window |-> -1, n |-> 0, ok |-> 0]

(* ------------------------------ /readyz ------------------------------- *)
\* what HEAD upstreamHealthUrl comes back with: a response with a status code,
\* a network error, or the abort of the request's own timer
NoResponse == [kind |-> "none", statusCode |-> 0]

UpstreamResponses ==
  {[kind |-> "response", statusCode |-> c] : c \in {200, 404, 500}}
    \cup {[kind |-> "error", statusCode |-> 0]}

Aborted == [kind |-> "abort", statusCode |-> 0]

\* the promise withTimeout returns (outer), the promise it wraps (inner) and
\* its timer, before withTimeout was called
NoTimeout == [inner |-> "none", timer |-> "none", outer |-> "none"]

\* resolve or reject called on a promise already settled, taking effect
SettleOverwrites(promise, outcome) == outcome

\* resolve(value) or reject(error) of new Promise: the first call settles
Settle(promise, outcome) == IF promise = "pending" THEN outcome ELSE promise

\* withTimeout is called: the timer is set and the callbacks are attached
WithTimeoutCall == [inner |-> "pending", timer |-> "armed", outer |-> "pending"]

\* the setTimeout callback: reject(new AppError(503, "NOT_READY", message))
WithTimeoutTimer(wt) ==
  [wt EXCEPT !.timer = "fired", !.outer = Settle(@, "NOT_READY")]

\* the wrapped promise settles (how: "resolved" or "rejected"): then or
\* catch passes it on, finally clears the timer
WithTimeoutInner(wt, how) ==
  [wt EXCEPT !.inner = how, !.outer = Settle(@, how),
             !.timer = IF @ = "armed" THEN "cleared" ELSE @]

\* no /readyz request in flight; url: config.upstreamHealthUrl is set
NoProbe ==
  [pc |-> "idle", url |-> FALSE, rpc |-> "unrun", upstream |-> NoResponse,
   status |-> 0, code |-> "", served |-> 0, wt |-> NoTimeout]

\* withTimeout(rpcClient.getBlockNumber(), ...): settled is "resolved",
\* "rejected", or "timer" when the timeout fired first
WithTimeout(settled) == IF settled = "resolved" THEN "ok" ELSE "failed"

\* headRequest accepting a status of 500
HeadRequestLenient(response) ==
  IF response.kind = "response" /\ ~(response.statusCode > 500)
    THEN "ok" ELSE "failed"

\* headRequest
HeadRequest(response) ==
  IF response.kind = "response" /\ ~(response.statusCode >= 500)
    THEN "ok" ELSE "failed"

\* checkOptionalUpstream
CheckOptionalUpstream(url, response) ==
  IF ~url THEN "ok" ELSE HeadRequest(response)

\* the /readyz handler once its probes are through (upstream "unrun": the
\* RPC probe threw first)
ReadyzHandler(rpc, upstream) ==
  IF rpc = "ok" /\ upstream = "ok"
    THEN [status |-> 200, code |-> ""]
    ELSE [status |-> 503, code |-> "NOT_READY"]

(* ------------------------------ actions ------------------------------- *)
Init ==
  /\ processEnv \in PipelineEnvs
  /\ config = LoadConfig(processEnv)
  /\ now = 0
  /\ closed = NewContext
  /\ ledgerOp = NoOp
  /\ ready = NoProbe
  /\ ticks = 0
  /\ globalCounters = [c \in Clients |-> NoCounter]
  /\ unpaidCounters = [c \in Clients |-> NoCounter]
  /\ cache = <<>>
  /\ req = [s \in Slots |-> IdleReq]
  /\ arrived = 0
  /\ commits = [k \in Keys |-> 0]
  /\ settles = [k \in Keys |-> 0]
  /\ overlap = {}
  /\ dropped = {}
  /\ qualified = {}
  /\ failed = {}
  /\ attempts = [c \in Clients |-> NoAttempts]
  /\ lastCall = NoCall
  /\ admitted = [c \in Clients |-> NoCalls]

\* a request arrives and its onRequest hooks run: the context, the global
\* limiter, then the middie chain (unpaid-attempt limiter, payment gate)
Receive(s) ==
  /\ config.ok
  /\ req[s].pc = "idle"
  /\ \A s2 \in Slots : s2 < s => InFlight(s2)
  /\ arrived < MaxRequests
  /\ arrived' = arrived + 1
  /\ \E in \in Inputs(config) :
       LET client == in.client
           route == in.route
           key == in.key
           pay == in.pay
           r0 == [OnRequestContext(client, route, key, pay) EXCEPT
                    !.replay = key \in qualified /\ LiveIn(cache, key, now)]
           g == GlobalOnRequest(r0, globalCounters, config, now)
           r1 == IF g.rq.pc # "finish" /\ Monetized(route)
                   THEN [g.rq EXCEPT !.prior = PriorAttempts(client, now)]
                   ELSE g.rq
           u == IF r1.pc = "finish"
                  THEN [rq |-> r1, counters |-> unpaidCounters]
                  ELSE UnpaidAttemptMiddleware(r1, unpaidCounters, config, now)
           p == IF u.rq.pc = "finish" THEN u.rq ELSE RequirePayment(u.rq, config)
       IN /\ req' = [req EXCEPT ![s] = p]
          /\ globalCounters' = g.counters
          /\ unpaidCounters' = u.counters
          /\ attempts' = IF r1.pc # "finish" /\ Monetized(route)
                           THEN [attempts EXCEPT ![client] =
                                   [window |-> WindowOf(now),
                                    n |-> Bump(PriorAttempts(client, now))]]
                           ELSE attempts
          /\ overlap' = IF key \in Keys /\ \E s2 \in Slots : InFlight(s2) /\ req[s2].key = key
                          THEN overlap \cup {key} ELSE overlap
  /\ UNCHANGED <<processEnv, closed, ledgerOp, ready, config, now, ticks, cache, commits, settles, dropped, qualified,
                 failed, lastCall, admitted>>

\* the facilitator middleware answers or verifies the credential
FacilitatorVerify(s) ==
  /\ req[s].pc = "verify"
  /\ req' = [req EXCEPT ![s] = X402Verify(req[s])]
  /\ UNCHANGED <<processEnv, closed, ledgerOp, ready, config, now, ticks, globalCounters, unpaidCounters, cache, arrived,
                 commits, settles, overlap, dropped, qualified, failed,
                 attempts, lastCall, admitted>>

\* the body is parsed: validation, preHandlers and the handler run, and the
\* response ends (held back by the facilitator middleware when it wrapped it)
Process(s) ==
  /\ req[s].pc = "body"
  /\ LET done == RunRoute(req[s], cache, now)
         answered == done.pc = "finish"
         ended == IF answered THEN done ELSE [done EXCEPT !.pc = "finish"]
     IN req' = [req EXCEPT ![s] =
                  IF Monetized(ended.route) /\ UsesFacilitator(config)
                    THEN X402Release(ended)
                  ELSE IF answered THEN ended ELSE Wire(ended)]
  /\ UNCHANGED <<processEnv, closed, ledgerOp, ready, config, now, ticks, globalCounters, unpaidCounters, cache, arrived,
                 commits, settles, overlap, dropped, qualified, failed,
                 attempts, lastCall, admitted>>

\* the facilitator settles the payment of a successful response
FacilitatorSettle(s) ==
  /\ req[s].pc = "settle"
  /\ \E success \in BOOLEAN :
       /\ req' = [req EXCEPT ![s] = X402Settle(req[s], success)]
       /\ settles' = IF success /\ req[s].key \in Keys
                       THEN [settles EXCEPT ![req[s].key] = Bump(@)]
                       ELSE settles
  /\ UNCHANGED <<processEnv, closed, ledgerOp, ready, config, now, ticks, globalCounters, unpaidCounters, cache, arrived,
                 commits, overlap, dropped, qualified, failed, attempts,
                 lastCall, admitted>>

\* the response has finished: the onResponse hooks run and the request is gone
Finalize(s) ==
  /\ req[s].pc = "finish"
  /\ LET rq == req[s]
         out == OnResponse(rq, unpaidCounters, cache, config, now)
         marks == IF out.marked \in Keys
                    THEN [commits EXCEPT ![out.marked] = Bump(@)]
                    ELSE commits
     IN /\ unpaidCounters' = out.counters
        /\ cache' = out.cache
        /\ commits' = marks
        /\ dropped' = dropped \cup Dropped(out.cache, marks, now)
        /\ qualified' = IF Monetized(rq.route) /\ rq.key \in Keys
                           /\ rq.ctx.paid /\ rq.status < 400
                          THEN qualified \cup {rq.key} ELSE qualified
        /\ failed' = IF Monetized(rq.route) /\ rq.key \in Keys
                        /\ (~rq.ctx.paid \/ rq.status >= 400)
                       THEN failed \cup {rq.key} ELSE failed
  /\ req' = [req EXCEPT ![s] = IdleReq]
  /\ closed' = ContextOnResponse(req[s])
  /\ UNCHANGED <<processEnv, ledgerOp, ready, config, now, ticks, globalCounters, settles, overlap, attempts, arrived,
                 lastCall, admitted>>

\* the wall clock advances
Tick ==
  /\ ticks < MaxTicks
  /\ \E d \in TickSteps : now' = now + d
  /\ ticks' = ticks + 1
  /\ dropped' = dropped \cup Dropped(cache, commits, now')
  /\ UNCHANGED <<processEnv, closed, ledgerOp, ready, config, globalCounters, unpaidCounters, cache, req, arrived, commits,
                 settles, overlap, qualified, failed, attempts, lastCall, admitted>>

Next ==
  \/ \E s \in Slots : Receive(s)
  \/ \E s \in Slots : FacilitatorVerify(s)
  \/ \E s \in Slots : Process(s)
  \/ \E s \in Slots : FacilitatorSettle(s)
  \/ \E s \in Slots : Finalize(s)
  \/ Tick

Spec == Init /\ [][Next]_vars

(* ------------------- the limiter on its own --------------------------- *)
\* one FixedWindowLimiter (the globalLimiter instance) with a bound drawn from
\* 1..MaxLimit, called for two keys while the clock advances by half a window
\* or a whole one
LimTickSteps == {WINDOW_MS \div 2, WINDOW_MS}

LimInit ==
  /\ processEnv = [NODE_ENV |-> "development", X402_DEV_BYPASS |-> "true"]
  /\ \E limit \in 1..MaxLimit :
       config = [LoadConfig(processEnv) EXCEPT !.rateLimitPerMin = limit]
  /\ now = 0
  /\ closed = NewContext
  /\ ledgerOp = NoOp
  /\ ready = NoProbe
  /\ ticks = 0
  /\ globalCounters = [c \in Clients |-> NoCounter]
  /\ unpaidCounters = [c \in Clients |-> NoCounter]
  /\ cache = <<>>
  /\ req = [s \in Slots |-> IdleReq]
  /\ arrived = 0
  /\ commits = [k \in Keys |-> 0]
  /\ settles = [k \in Keys |-> 0]
  /\ overlap = {}
  /\ dropped = {}
  /\ qualified = {}
  /\ failed = {}
  /\ attempts = [c \in Clients |-> NoAttempts]
  /\ lastCall = NoCall
  /\ admitted = [c \in Clients |-> NoCalls]

LimConsume(key) ==
  LET limit == config.rateLimitPerMin
      allowed == Consume(globalCounters, key, limit, now)
      before == admitted[key]
      fresh == before.window # WindowOf(now)
      index == IF fresh THEN 1
               ELSE IF before.n < limit + 1 THEN before.n + 1 ELSE before.n
      ok == (IF fresh THEN 0 ELSE before.ok) + (IF allowed.ok THEN 1 ELSE 0)
  IN /\ globalCounters' = allowed.counters
     /\ admitted' = [admitted EXCEPT ![key] =
                       [window |-> WindowOf(now), n |-> index, ok |-> ok]]
     /\ lastCall' = [called |-> TRUE, key |-> key, at |-> now, ok |-> allowed.ok,
                     index |-> index, fresh |-> fresh,
                     before |-> globalCounters[key]]
     /\ UNCHANGED <<processEnv, closed, ledgerOp, ready, config, now, ticks, unpaidCounters, cache, req, arrived,
                    commits, settles, overlap, dropped, qualified, failed, attempts>>

LimTick ==
  /\ ticks < MaxLimTicks
  /\ \E d \in LimTickSteps : now' = now + d
  /\ ticks' = ticks + 1
  /\ UNCHANGED <<processEnv, closed, ledgerOp, ready, config, globalCounters, unpaidCounters, cache, req, arrived,
                 commits, settles, overlap, dropped, qualified, failed, attempts,
                 lastCall, admitted>>

LimNext ==
  \/ \E key \in Clients : LimConsume(key)
  \/ LimTick

SpecLimiter == LimInit /\ [][LimNext]_vars

(* ------------------- startup: main() in every environment ------------ *)
\* before main() has called loadConfig
NotLoaded ==
  [ok |-> FALSE, nodeEnv |-> "unset", x402DevBypass |-> FALSE,
   rateLimitPerMin |-> GlobalPerMin, rateLimitUnpaidPerMin |-> UnpaidPerMin]

\* the state shared by the two specifications below, apart from the config
ProbeInit ==
  /\ now = 0
  /\ closed = NewContext
  /\ ledgerOp = NoOp
  /\ ready = NoProbe
  /\ ticks = 0
  /\ globalCounters = [c \in Clients |-> NoCounter]
  /\ unpaidCounters = [c \in Clients |-> NoCounter]
  /\ cache = <<>>
  /\ req = [s \in Slots |-> IdleReq]
  /\ arrived = 0
  /\ commits = [k \in Keys |-> 0]
  /\ settles = [k \in Keys |-> 0]
  /\ overlap = {}
  /\ dropped = {}
  /\ qualified = {}
  /\ failed = {}
  /\ attempts = [c \in Clients |-> NoAttempts]
  /\ lastCall = NoCall
  /\ admitted = [c \in Clients |-> NoCalls]

StartupInit ==
  /\ processEnv \in Envs
  /\ config = NotLoaded
  /\ ProbeInit

\* main: const config = loadConfig(); the app is built and listens only if
\* loadConfig returned
Main ==
  /\ config = NotLoaded
  /\ config' = LoadConfig(processEnv)
  /\ UNCHANGED <<processEnv, closed, ledgerOp, ready, now, ticks, globalCounters, unpaidCounters, cache, req,
                 arrived, commits, settles, overlap, dropped, qualified, failed,
                 attempts, lastCall, admitted>>

ProbeReceive(s) == arrived < ProbeRequests /\ Receive(s)

ProbeNext ==
  \/ \E s \in Slots : ProbeReceive(s)
  \/ \E s \in Slots : FacilitatorVerify(s)
  \/ \E s \in Slots : Process(s)
  \/ \E s \in Slots : FacilitatorSettle(s)
  \/ \E s \in Slots : Finalize(s)
  \/ Tick

StartupNext == Main \/ ProbeNext

SpecStartup == StartupInit /\ [][StartupNext]_vars

(* ------------- buildApp called with a hand-built AppConfig ------------ *)
\* buildApp(config) takes any AppConfig: the production configs, with the
\* bypass flag either way, loadConfig's refusal notwithstanding
BuiltConfigs ==
  {[ok |-> TRUE, nodeEnv |-> "production", x402DevBypass |-> flag,
    rateLimitPerMin |-> GlobalPerMin, rateLimitUnpaidPerMin |-> UnpaidPerMin] :
     flag \in BOOLEAN}

BuiltInit ==
  /\ processEnv = [NODE_ENV |-> "production", X402_DEV_BYPASS |-> ""]
  /\ config \in BuiltConfigs
  /\ ProbeInit

SpecBuilt == BuiltInit /\ [][ProbeNext]_vars

(* ----------------------- the idempotency store ------------------------ *)
StoreKeys == {"k1", "k2", "k3"}

\* the clock advances by the ttl or by one millisecond
StoreTickSteps == {TTL_MS, 1}

CacheKeys(c) == {c[i].key : i \in 1..Len(c)}

StoreInit ==
  /\ processEnv = [NODE_ENV |-> "development", X402_DEV_BYPASS |-> "true"]
  /\ config = LoadConfig(processEnv)
  /\ ledgerOp = [NoOp EXCEPT !.last = [k \in StoreKeys |-> -1]]
  /\ now = 0
  /\ closed = NewContext
  /\ ready = NoProbe
  /\ ticks = 0
  /\ globalCounters = [c \in Clients |-> NoCounter]
  /\ unpaidCounters = [c \in Clients |-> NoCounter]
  /\ cache = <<>>
  /\ req = [s \in Slots |-> IdleReq]
  /\ arrived = 0
  /\ commits = [k \in Keys |-> 0]
  /\ settles = [k \in Keys |-> 0]
  /\ overlap = {}
  /\ dropped = {}
  /\ qualified = {}
  /\ failed = {}
  /\ attempts = [c \in Clients |-> NoAttempts]
  /\ lastCall = NoCall
  /\ admitted = [c \in Clients |-> NoCalls]

\* has(key), as the pre-check calls it
StoreLookup(key) ==
  /\ cache' = StoreAfterHas(cache, key, now)
  /\ ledgerOp' = [ledgerOp EXCEPT
                    !.op = "has", !.key = key, !.at = now,
                    !.seen = StoreHas(cache, key, now), !.before = cache,
                    !.looked = IF StoreHas(cache, key, now)
                                 THEN @ \cup {key} ELSE @]
  /\ UNCHANGED <<processEnv, closed, ready, config, now, ticks, globalCounters, unpaidCounters,
                 req, arrived, commits, settles, overlap, dropped, qualified, failed,
                 attempts, lastCall, admitted>>

\* markSeen(key), as the onResponse hook calls it
StoreCommit(key) ==
  /\ cache' = StoreSet(cache, key, now, StoreMax)
  /\ ledgerOp' = [ledgerOp EXCEPT
                    !.op = "markSeen", !.key = key, !.at = now,
                    !.seen = FALSE, !.before = cache,
                    !.last = [@ EXCEPT ![key] = now],
                    !.gone = (@ \ {key}) \cup (CacheKeys(cache) \ CacheKeys(cache')),
                    !.looked = @ \ {key}]
  /\ UNCHANGED <<processEnv, closed, ready, config, now, ticks, globalCounters, unpaidCounters,
                 req, arrived, commits, settles, overlap, dropped, qualified, failed,
                 attempts, lastCall, admitted>>

StoreTick ==
  /\ ticks < MaxStoreTicks
  /\ \E d \in StoreTickSteps : now' = now + d
  /\ ticks' = ticks + 1
  /\ UNCHANGED <<processEnv, closed, ledgerOp, ready, config, globalCounters, unpaidCounters, cache,
                 req, arrived, commits, settles, overlap, dropped, qualified, failed,
                 attempts, lastCall, admitted>>

StoreNext ==
  \/ \E key \in StoreKeys : StoreLookup(key)
  \/ \E key \in StoreKeys : StoreCommit(key)
  \/ StoreTick

SpecStore == StoreInit /\ [][StoreNext]_vars

(* --------------------------- GET /readyz ------------------------------ *)
ReadyInit ==
  /\ processEnv = [NODE_ENV |-> "development", X402_DEV_BYPASS |-> "true"]
  /\ config = LoadConfig(processEnv)
  /\ \E url \in BOOLEAN : ready = [NoProbe EXCEPT !.url = url]
  /\ now = 0
  /\ closed = NewContext
  /\ ledgerOp = NoOp
  /\ ticks = 0
  /\ globalCounters = [c \in Clients |-> NoCounter]
  /\ unpaidCounters = [c \in Clients |-> NoCounter]
  /\ cache = <<>>
  /\ req = [s \in Slots |-> IdleReq]
  /\ arrived = 0
  /\ commits = [k \in Keys |-> 0]
  /\ settles = [k \in Keys |-> 0]
  /\ overlap = {}
  /\ dropped = {}
  /\ qualified = {}
  /\ failed = {}
  /\ attempts = [c \in Clients |-> NoAttempts]
  /\ lastCall = NoCall
  /\ admitted = [c \in Clients |-> NoCalls]

Respond(probe, answer) ==
  [probe EXCEPT !.pc = "done", !.status = answer.status, !.code = answer.code]

\* the request arrives: the global limiter, then the handler starts checkRpc
ReadyzReceive ==
  /\ ready.pc = "idle"
  /\ ready.served < MaxReadyz
  /\ LET allowed == Consume(globalCounters, "A", config.rateLimitPerMin, now)
         fresh == [ready EXCEPT !.served = @ + 1, !.rpc = "unrun",
                                !.upstream = NoResponse, !.status = 0, !.code = "",
                                !.wt = NoTimeout]
     IN /\ globalCounters' = allowed.counters
        /\ ready' = IF allowed.ok
                      THEN [fresh EXCEPT !.pc = "rpc", !.rpc = "pending",
                                         !.wt = WithTimeoutCall]
                      ELSE Respond(fresh, [status |-> 429, code |-> "RATE_LIMITED"])
  /\ UNCHANGED <<processEnv, closed, ledgerOp, config, now, ticks, unpaidCounters, cache, req, arrived,
                 commits, settles, overlap, dropped, qualified, failed, attempts,
                 lastCall, admitted>>

\* the handler once checkRpc is through: it answers 503, or goes on to
\* checkOptionalUpstream, which returns at once when no URL is configured
RpcThrough(probe, settled) ==
  LET rpc == WithTimeout(settled)
      seen == [probe EXCEPT !.rpc = settled]
  IN IF rpc # "ok" THEN Respond(seen, ReadyzHandler(rpc, "unrun"))
     ELSE IF probe.url THEN [seen EXCEPT !.pc = "upstream"]
     ELSE Respond(seen, ReadyzHandler(rpc, CheckOptionalUpstream(FALSE, NoResponse)))

\* the handler once checkOptionalUpstream is through
UpstreamThrough(probe, response) ==
  Respond([probe EXCEPT !.upstream = response],
          ReadyzHandler("ok", CheckOptionalUpstream(TRUE, response)))

\* the RPC node answers or fails before the timer of withTimeout
RpcSettle ==
  /\ ready.pc = "rpc"
  /\ \E settled \in {"resolved", "rejected"} :
       ready' = RpcThrough([ready EXCEPT !.wt = WithTimeoutInner(@, settled)], settled)
  /\ UNCHANGED <<processEnv, closed, ledgerOp, config, now, ticks, globalCounters, unpaidCounters, cache,
                 req, arrived, commits, settles, overlap, dropped, qualified, failed,
                 attempts, lastCall, admitted>>

\* the timer of withTimeout fires first
RpcTimeout ==
  /\ ready.pc = "rpc"
  /\ ready' = RpcThrough([ready EXCEPT !.wt = WithTimeoutTimer(@)], "timer")
  /\ UNCHANGED <<processEnv, closed, ledgerOp, config, now, ticks, globalCounters, unpaidCounters, cache,
                 req, arrived, commits, settles, overlap, dropped, qualified, failed,
                 attempts, lastCall, admitted>>

\* the RPC node answers or fails after the timer of withTimeout has fired
RpcLate ==
  /\ ready.wt.inner = "pending"
  /\ ready.wt.timer = "fired"
  /\ \E settled \in {"resolved", "rejected"} :
       ready' = [ready EXCEPT !.wt = WithTimeoutInner(@, settled)]
  /\ UNCHANGED <<processEnv, closed, ledgerOp, config, now, ticks, globalCounters, unpaidCounters, cache,
                 req, arrived, commits, settles, overlap, dropped, qualified, failed,
                 attempts, lastCall, admitted>>

\* the upstream answers the HEAD request, or the request fails
UpstreamSettle ==
  /\ ready.pc = "upstream"
  /\ \E response \in UpstreamResponses : ready' = UpstreamThrough(ready, response)
  /\ UNCHANGED <<processEnv, closed, ledgerOp, config, now, ticks, globalCounters, unpaidCounters, cache,
                 req, arrived, commits, settles, overlap, dropped, qualified, failed,
                 attempts, lastCall, admitted>>

\* the timer of headRequest aborts the HEAD request
UpstreamAbort ==
  /\ ready.pc = "upstream"
  /\ ready' = UpstreamThrough(ready, Aborted)
  /\ UNCHANGED <<processEnv, closed, ledgerOp, config, now, ticks, globalCounters, unpaidCounters, cache,
                 req, arrived, commits, settles, overlap, dropped, qualified, failed,
                 attempts, lastCall, admitted>>

\* the response has finished; the onResponse hook returns at once for /readyz
ReadyzFinalize ==
  /\ ready.pc = "done"
  /\ ready' = [ready EXCEPT !.pc = "idle"]
  /\ UNCHANGED <<processEnv, closed, ledgerOp, config, now, ticks, globalCounters, unpaidCounters, cache,
                 req, arrived, commits, settles, overlap, dropped, qualified, failed,
                 attempts, lastCall, admitted>>

ReadyNext ==
  \/ ReadyzReceive
  \/ RpcSettle
  \/ RpcTimeout
  \/ RpcLate
  \/ UpstreamSettle
  \/ UpstreamAbort
  \/ ReadyzFinalize
  \/ LimTick

\* the two timers are setTimeout callbacks, which the event loop runs
SpecReady ==
  /\ ReadyInit
  /\ [][ReadyNext]_vars
  /\ WF_vars(RpcTimeout)
  /\ WF_vars(UpstreamAbort)

(* ------------------------------ claims -------------------------------- *)
Live(key) == LiveIn(cache, key, now)

LastStage(rq) == IF rq.stages = <<>> THEN "" ELSE rq.stages[Len(rq.stages)]

Finalizing(s) == req[s].pc = "finish" /\ req'[s].pc = "idle"

\* C1, as stated: once a paid request with key K has been finalized with a
\* status below 400, every later request carrying K that arrives while K's
\* record is in the ledger ends with 409 IDEMPOTENCY_REPLAY and without the
\* handler having run.
C1_EveryLaterRequestIsReplay ==
  \A s \in Slots :
    (req[s].pc = "finish" /\ req[s].replay /\ Live(req[s].key))
      => /\ req[s].status = 409
         /\ req[s].code = "IDEMPOTENCY_REPLAY"
         /\ ~Ran(req[s], "handler")

\* C1, amended: a request carrying K that reaches the idempotency pre-check
\* (it passed both limiters and the payment gate) while the record of a paid,
\* successfully finalized K is in the ledger is answered 409 IDEMPOTENCY_REPLAY
\* and its handler does not run; no request is answered IDEMPOTENCY_REPLAY for a
\* key that no such finalization committed.
C1_ReplayRejectedAtPreCheck ==
  /\ [][\A s \in Slots :
          (/\ req[s].pc = "body" /\ req'[s].pc # "body"
           /\ Monetized(req[s].route)
           /\ req[s].key \in qualified /\ Live(req[s].key))
            => /\ req'[s].pc = "finish"
               /\ req'[s].status = 409
               /\ req'[s].code = "IDEMPOTENCY_REPLAY"
               /\ ~Ran(req'[s], "handler")]_vars
  /\ [](\A s \in Slots :
          req[s].code = "IDEMPOTENCY_REPLAY" => req[s].key \in qualified)

C1_Witness ==
  \E s, s2 \in Slots :
    /\ req[s].key = "k1" /\ req[s].replay /\ Live("k1")
    /\ req[s].pc = "finish" /\ req[s].code = "IDEMPOTENCY_REPLAY"
    /\ req[s2].key = "k2" /\ "k2" \notin qualified
    /\ req[s2].pc = "finish" /\ req[s2].status = 200 /\ Ran(req[s2], "handler")

\* C2, as stated: over any execution, requests carrying one key and issued one
\* after the other are settled at most once.
C2_AtMostOneSettlement ==
  \A k \in Keys : k \notin overlap => settles[k] <= 1

\* C2, amended: requests carrying one key and issued one after the other are
\* settled at most once for as long as the key's committed record has neither
\* expired nor been evicted.
C2_OneSettlementWhileRecorded ==
  \A k \in Keys : (k \notin overlap /\ k \notin dropped) => settles[k] <= 1

C2_Witness ==
  \E s \in Slots :
    /\ req[s].key = "k1" /\ req[s].replay /\ Ran(req[s], "verify")
    /\ req[s].status = 409 /\ req[s].pc = "finish"
    /\ settles["k1"] = 1 /\ "k1" \notin overlap /\ "k1" \notin dropped

\* C3: every key in the idempotency ledger was carried by a finalized request
\* on the monetized route that ended paid with a status below 400, and the
\* ledger is written by nothing but the finalization of such a request, which
\* writes the key the request carried.
C3_LedgerOnlyPaidSuccess ==
  /\ [](\A i \in 1..Len(cache) : cache[i].key \in qualified)
  /\ [][cache' # cache =>
          \E s \in Slots :
            /\ Finalizing(s) /\ Monetized(req[s].route)
            /\ req[s].ctx.paid /\ req[s].status < 400
            /\ req[s].key \in Keys
            /\ cache' = StoreMarkSeen(cache, req[s].key, now)]_vars

C3_Witness ==
  /\ Len(cache) > 0
  /\ \E k \in Keys : k \in failed /\ k \notin qualified /\ settles[k] = 0

\* C4, as stated: markSeen is performed at most once for a key, requests in
\* flight together included.
C4_CommittedAtMostOnce ==
  \A k \in Keys : commits[k] <= 1

\* C4, amended: markSeen is performed at most once for a key as long as the
\* requests carrying it are issued one after the other and its record has
\* neither expired nor been evicted; requests in flight together, or a request
\* after the record is gone, commit the key again.
C4_OneCommitWhileRecorded ==
  \A k \in Keys : (k \notin overlap /\ k \notin dropped) => commits[k] <= 1

C4_Witness ==
  /\ commits["k1"] = 1 /\ "k1" \notin overlap /\ "k1" \notin dropped
  /\ "k1" \in failed /\ "k1" \in qualified
  /\ \A s \in Slots : ~InFlight(s)

\* C5: the finalization of a request that ended unpaid or with a status of 400
\* or above leaves the ledger as it was, and a key that only such requests
\* have carried has no record in the ledger and is never answered with a
\* replay rejection.
C5_FailedRequestLeavesLedger ==
  /\ [][\A s \in Slots :
          (Finalizing(s) /\ (~req[s].ctx.paid \/ req[s].status >= 400))
            => cache' = cache]_vars
  /\ [](\A k \in Keys :
          (k \in failed /\ k \notin qualified)
            => /\ CacheIndex(cache, k) = {}
               /\ \A s \in Slots :
                    req[s].key = k => req[s].code # "IDEMPOTENCY_REPLAY")

C5_Witness ==
  \E s \in Slots :
    /\ req[s].key = "k1" /\ "k1" \in failed /\ "k1" \notin qualified
    /\ Ran(req[s], "handler") /\ req[s].status = 200 /\ req[s].pc = "finish"
    /\ cache = <<>>

\* C6, read in the claim's favour (only the requests that both limiters and
\* the payment gate let through): a request on the monetized route whose
\* Idempotency-Key header is absent or empty is answered 400 with code
\* IDEMPOTENCY_REQUIRED.
C6_MissingKeyIsIdempotencyRequired ==
  \A s \in Slots :
    (/\ req[s].pc = "finish" /\ Monetized(req[s].route)
     /\ ~Truthy(req[s].key) /\ Ran(req[s], "validate"))
      => req[s].status = 400 /\ req[s].code = "IDEMPOTENCY_REQUIRED"

\* C7, as stated: the payment gate (bypass decision, credential decoding,
\* facilitator call) never runs for a monetized-route request without the key.
C7_NoKeyNeverReachesGate ==
  \A s \in Slots :
    (Monetized(req[s].route) /\ req[s].key = NoKey)
      => ~Ran(req[s], "gate") /\ ~Ran(req[s], "verify")

\* C7, amended: a monetized-route request without the key is always rejected
\* before the handler and before settlement (the payment gate and the
\* facilitator's verification do run for it): its handler never runs, its
\* payment is never settled and it ends with a status of 400 or above.
C7_NoKeyNeverHandledNorSettled ==
  \A s \in Slots :
    (Monetized(req[s].route) /\ ~Truthy(req[s].key) /\ InFlight(s))
      => /\ ~Ran(req[s], "handler")
         /\ ~Ran(req[s], "settle")
         /\ req[s].pc # "settle"
         /\ (req[s].pc = "finish" => req[s].status >= 400)

C7_Witness ==
  \E s \in Slots :
    /\ req[s].key = NoKey /\ Ran(req[s], "verify")
    /\ req[s].pc = "finish" /\ req[s].status = 400

\* C8: with bound L, the calls of consume for one key in one window return
\* true for the first L and false for the (L+1)-th and every later one, so at
\* most L are admitted and no stored count exceeds L.
C8_AtMostLPerWindow ==
  /\ \A key \in Clients :
       /\ admitted[key].ok <= config.rateLimitPerMin
       /\ globalCounters[key].count <= config.rateLimitPerMin
  /\ lastCall.called => (lastCall.ok <=> lastCall.index <= config.rateLimitPerMin)

C8_Witness ==
  /\ lastCall.called /\ ~lastCall.ok
  /\ config.rateLimitPerMin >= 2
  /\ lastCall.index = config.rateLimitPerMin + 1
  /\ admitted[lastCall.key].ok = config.rateLimitPerMin
  /\ lastCall.at # WindowStart(lastCall.at)

\* C9: the first consume call for a key in a window is admitted and leaves the
\* key's counter at count 1 for the current window, whatever was stored before.
C9_FirstOfWindowAdmitted ==
  (lastCall.called /\ lastCall.fresh)
    => /\ lastCall.ok
       /\ globalCounters[lastCall.key] =
            [windowStart |-> WindowOf(lastCall.at) * WINDOW_MS, count |-> 1]

C9_Witness ==
  /\ lastCall.called /\ lastCall.fresh /\ lastCall.ok
  /\ lastCall.before # NoCounter
  /\ lastCall.before.count = config.rateLimitPerMin
  /\ config.rateLimitPerMin >= 2

\* C10, for the unpaid-attempt limiter as wired: a request is answered 429 by
\* that limiter only if the client already made L requests subject to it in
\* the current window, so that the first L are let through.
C10_FirstLNotRateLimited ==
  \A s \in Slots :
    (req[s].code = "RATE_LIMITED" /\ LastStage(req[s]) = "unpaid")
      => req[s].prior >= config.rateLimitUnpaidPerMin

BypassMode == config.x402DevBypass /\ config.nodeEnv # "production"

\* the request carries what its deployment admits as payment
CarriesPayment(rq) == IF BypassMode THEN rq.pay = "bypass" ELSE rq.pay = "valid"

\* C11, as stated: a monetized-route request that the gate lets through as
\* paid changes no unpaid-attempt counter on its arrival.
C11_PaidLeavesUnpaidCounters ==
  [][\A s \in Slots :
       (/\ req[s].pc = "idle" /\ req'[s].pc \in {"body", "verify"}
        /\ Monetized(req'[s].route) /\ CarriesPayment(req'[s]))
         => unpaidCounters' = unpaidCounters]_vars

\* C12: in bypass mode a monetized-route request that reaches the gate without
\* x-dev-bypass: true is answered 402 PAYMENT_REQUIRED with the header
\* PAYMENT-REQUIRED: dev-bypass and runs neither validation, the idempotency
\* pre-check nor the handler.
C12_BypassSignalMissing ==
  \A s \in Slots :
    (/\ BypassMode /\ Monetized(req[s].route)
     /\ Ran(req[s], "gate") /\ req[s].pay # "bypass")
      => /\ req[s].pc = "finish"
         /\ req[s].status = 402 /\ req[s].code = "PAYMENT_REQUIRED"
         /\ req[s].hint = "dev-bypass"
         /\ ~req[s].raw.set
         /\ ~Ran(req[s], "validate") /\ ~Ran(req[s], "precheck")
         /\ ~Ran(req[s], "handler")

C12_Witness ==
  \E s \in Slots :
    /\ BypassMode /\ req[s].key = "k1" /\ req[s].pay = "none"
    /\ Ran(req[s], "gate") /\ req[s].status = 402 /\ req[s].hint = "dev-bypass"

\* C13: in bypass mode a monetized-route request that reaches the gate with
\* x-dev-bypass: true is admitted with paid = true and paidMode = dev_bypass,
\* no facilitator middleware exists and none verifies or settles it, and when
\* its key is not in the ledger at the pre-check it is answered 200 with a
\* receipt whose idempotencyKey is the key it sent.
C13_BypassSignalAdmits ==
  /\ [](\A s \in Slots :
          (/\ BypassMode /\ Monetized(req[s].route)
           /\ Ran(req[s], "gate") /\ req[s].pay = "bypass")
            => /\ req[s].raw = [set |-> TRUE, paid |-> TRUE, paidMode |-> "dev_bypass",
                                idempotencyKey |-> req[s].key]
               /\ ~HasX402Middleware(config)
               /\ req[s].pc \notin {"verify", "settle"}
               /\ ~Ran(req[s], "verify") /\ ~Ran(req[s], "settle")
               /\ req[s].status # 402)
  /\ [][\A s \in Slots :
          (/\ BypassMode /\ Monetized(req[s].route) /\ req[s].pay = "bypass"
           /\ req[s].pc = "body" /\ req'[s].pc # "body"
           /\ Truthy(req[s].key) /\ ~StoreHas(cache, req[s].key, now))
            => /\ req'[s].pc = "finish" /\ req'[s].status = 200
               /\ req'[s].ctx.paid /\ req'[s].ctx.paidMode = "dev_bypass"
               /\ req'[s].receiptKey = req[s].key]_vars

C13_Witness ==
  \E s \in Slots :
    /\ BypassMode /\ req[s].pay = "bypass" /\ req[s].key = "k2"
    /\ req[s].pc = "finish" /\ req[s].status = 200 /\ req[s].receiptKey = "k2"
    /\ Live("k1")

\* C14: with nodeEnv = "production", whatever the bypass flag and whatever a
\* request carries, no payment context has paidMode = dev_bypass and a
\* monetized-route request reaches the handler only after the facilitator has
\* verified a valid credential.
C14_NoBypassInProduction ==
  config.nodeEnv = "production" =>
    \A s \in Slots :
      /\ req[s].raw.paidMode # "dev_bypass"
      /\ req[s].ctx.paidMode # "dev_bypass"
      /\ (Monetized(req[s].route) /\ Ran(req[s], "handler"))
           => Ran(req[s], "verify") /\ req[s].pay = "valid"

C14_Witness ==
  /\ config.nodeEnv = "production" /\ config.x402DevBypass
  /\ \E s \in Slots :
       /\ Monetized(req[s].route) /\ req[s].pay = "bypass" /\ req[s].key = "k1"
       /\ req[s].pc = "finish" /\ req[s].status >= 400 /\ ~Ran(req[s], "handler")

\* C15: when NODE_ENV is "production" and X402_DEV_BYPASS reads true in any
\* letter case, loadConfig throws: no configuration is returned, so none with
\* nodeEnv = production and x402DevBypass = true exists, and no request is
\* ever received.
C15_ProductionBypassRefused ==
  /\ (/\ config # NotLoaded
      /\ processEnv.NODE_ENV = "production"
      /\ processEnv.X402_DEV_BYPASS \in {"true", "TRUE"})
       => /\ ~config.ok
          /\ arrived = 0
          /\ \A s \in Slots : ~InFlight(s)
  /\ config.ok => ~(config.nodeEnv = "production" /\ config.x402DevBypass)

C15_Witness ==
  /\ config # NotLoaded /\ ~config.ok
  /\ processEnv = [NODE_ENV |-> "production", X402_DEV_BYPASS |-> "TRUE"]

\* C16, as stated: in facilitator mode a monetized-route request whose payment
\* header cannot be decoded is answered 402 with code PAYMENT_INVALID, and
\* neither the facilitator nor the handler runs for it.
C16_MalformedIsPaymentInvalid ==
  \A s \in Slots :
    (/\ ~BypassMode /\ HasX402Middleware(config) /\ Monetized(req[s].route)
     /\ req[s].pay = "malformed" /\ Ran(req[s], "gate"))
      => /\ req[s].pc = "finish"
         /\ req[s].status = 402 /\ req[s].code = "PAYMENT_INVALID"
         /\ ~Ran(req[s], "verify") /\ ~Ran(req[s], "handler")

\* C17, as stated: a monetized-route request without payment evidence that
\* reaches the gate is answered 402 PAYMENT_REQUIRED with a body that lists
\* the accepted payments.
C17_PaymentRequiredCarriesInstructions ==
  \A s \in Slots :
    (/\ Monetized(req[s].route) /\ req[s].pay = "none"
     /\ Ran(req[s], "gate") /\ req[s].pc = "finish")
      => /\ req[s].status = 402 /\ req[s].code = "PAYMENT_REQUIRED"
         /\ req[s].accepts

PlainStep(s) ==
  /\ req'[s] # req[s]
  /\ \/ InFlight(s) /\ ~Monetized(req[s].route)
     \/ ~InFlight(s) /\ InFlight(s)' /\ ~Monetized(req'[s].route)

\* C19: a request on a non-monetized route, whatever headers it carries, is
\* not touched by the unpaid-attempt limiter or the payment gate: it gets no
\* payment context and no 402, and no step of it changes an unpaid-attempt
\* counter or the ledger.
C19_PlainRouteBypassesGate ==
  /\ [](\A s \in Slots :
          (InFlight(s) /\ ~Monetized(req[s].route))
            => /\ ~req[s].raw.set /\ ~req[s].ctx.paid
               /\ req[s].status # 402
               /\ ~Ran(req[s], "unpaid") /\ ~Ran(req[s], "gate")
               /\ ~Ran(req[s], "verify") /\ ~Ran(req[s], "settle"))
  /\ [][\A s \in Slots :
          PlainStep(s) => unpaidCounters' = unpaidCounters /\ cache' = cache]_vars

C19_Witness ==
  \E s \in Slots :
    /\ ~Monetized(req[s].route) /\ req[s].key = "k1"
    /\ req[s].pay \in {"bypass", "valid"}
    /\ req[s].pc = "finish" /\ req[s].status = 200
    /\ Len(cache) > 0 /\ unpaidCounters["A"].count > 0

\* the stages of the pipeline the order is stated for
CoreStages == {"context", "global", "unpaid", "gate", "precheck", "handler"}

Core(rq) == SelectSeq(rq.stages, LAMBDA stage : stage \in CoreStages)

\* C20: a monetized-route request that reached the handler ran request-context
\* creation, the global limiter, the unpaid-attempt limiter, the payment gate,
\* the idempotency pre-check and the handler once each and in that order, and
\* it is finalized only afterwards, from a finished response.
C20_StagesInOrder ==
  /\ [](\A s \in Slots :
          (Monetized(req[s].route) /\ Ran(req[s], "handler"))
            => Core(req[s]) =
                 <<"context", "global", "unpaid", "gate", "precheck", "handler">>)
  /\ [][\A s \in Slots :
          (InFlight(s) /\ ~InFlight(s)')
            => /\ req[s].pc = "finish"
               /\ Monetized(req[s].route) =>
                    /\ Core(req[s])[1] = "context"
                    /\ Ran(req[s], "handler") => req[s].status \in {200, 402}]_vars

C20_Witness ==
  \E s \in Slots :
    /\ req[s].pc = "finish" /\ req[s].status = 200
    /\ req[s].stages = <<"context", "global", "unpaid", "gate", "verify",
                         "validate", "precheck", "handler", "settle">>

\* the admission stages, each of which can answer the request itself
AdmissionStages == {"global", "unpaid", "gate", "verify", "validate", "precheck"}

\* the client's global bucket is full for the window of the current time
GlobalExhausted(client) ==
  /\ globalCounters[client].windowStart = WindowStart(now)
  /\ globalCounters[client].count >= config.rateLimitPerMin

\* C21: a request answered by an admission stage (any status of 400 or above
\* not produced by a failed settlement) has that stage as its last one, never
\* runs the handler and changes no more until it is finalized; a request that
\* arrives with the global bucket full is answered 429 RATE_LIMITED having run
\* only context creation and the global limiter, with no unpaid-attempt
\* counter changed on arrival or at its finalization.
C21_RejectionHalts ==
  /\ [](\A s \in Slots :
          (InFlight(s) /\ req[s].status >= 400 /\ ~Ran(req[s], "settle"))
            => /\ req[s].pc = "finish"
               /\ LastStage(req[s]) \in AdmissionStages
               /\ ~Ran(req[s], "handler"))
  /\ [][\A s \in Slots :
          req[s].pc = "finish" => req'[s] = req[s] \/ req'[s] = IdleReq]_vars
  /\ [][\A s \in Slots :
          (~InFlight(s) /\ InFlight(s)' /\ GlobalExhausted(req'[s].client))
            => /\ req'[s].pc = "finish"
               /\ req'[s].status = 429 /\ req'[s].code = "RATE_LIMITED"
               /\ req'[s].stages = <<"context", "global">>
               /\ ~req'[s].raw.set
               /\ unpaidCounters' = unpaidCounters]_vars
  /\ [][\A s \in Slots :
          (Finalizing(s) /\ req[s].status = 429)
            => unpaidCounters' = unpaidCounters /\ cache' = cache]_vars

C21_Witness ==
  \E s \in Slots :
    /\ Monetized(req[s].route) /\ req[s].pay = "bypass" /\ req[s].key = "k1"
    /\ req[s].pc = "finish" /\ req[s].status = 429
    /\ req[s].stages = <<"context", "global">>
    /\ unpaidCounters[req[s].client].count = 1

\* the counter one consume call leaves for a bucket with bound L at the
\* current time
Charged(counter, L) ==
  IF counter.windowStart # WindowStart(now)
    THEN [windowStart |-> WindowStart(now), count |-> 1]
  ELSE IF counter.count >= L THEN counter
  ELSE [windowStart |-> counter.windowStart, count |-> counter.count + 1]

\* C22: a request leaves only through finalization of its finished response,
\* whatever the status, and the finalization of a monetized-route request
\* whose status is 402 performs one consume on the unpaid-attempt counter of
\* that request's client and touches no other client's counter.
C22_FinalizationCharges402 ==
  /\ [][\A s \in Slots :
          (InFlight(s) /\ ~InFlight(s)') => req[s].pc = "finish"]_vars
  /\ [][\A s \in Slots :
          (Finalizing(s) /\ Monetized(req[s].route) /\ req[s].status = 402)
            => unpaidCounters' =
                 [unpaidCounters EXCEPT ![req[s].client] =
                    Charged(@, config.rateLimitUnpaidPerMin)]]_vars

C22_Witness ==
  /\ \A s \in Slots : ~InFlight(s)
  /\ arrived = 1
  /\ unpaidCounters["A"] = [windowStart |-> WindowStart(now), count |-> 2]
  /\ "k1" \in failed

\* C23: finalization changes the global counters never, the unpaid-attempt
\* counters only for a monetized-route request with status 402, and the ledger
\* only for a monetized-route request with a status below 400, paid = true and
\* a key, and never both for one request.
C23_FinalizationTwoPaths ==
  [][\A s \in Slots :
       Finalizing(s) =>
         /\ globalCounters' = globalCounters
         /\ unpaidCounters' # unpaidCounters
              => Monetized(req[s].route) /\ req[s].status = 402
         /\ (cache' # cache \/ commits' # commits)
              => /\ Monetized(req[s].route) /\ req[s].status < 400
                 /\ req[s].ctx.paid /\ Truthy(req[s].ctx.idempotencyKey)
         /\ unpaidCounters' = unpaidCounters
              \/ (cache' = cache /\ commits' = commits)]_vars

C23_Witness ==
  /\ \A s \in Slots : ~InFlight(s)
  /\ "k1" \in qualified /\ "k1" \in failed /\ "k2" \in failed
  /\ Len(cache) > 0
  /\ unpaidCounters["A"].count < config.rateLimitUnpaidPerMin

\* the status the claim pairs with each error code
PairedStatus(code) ==
  CASE code = "RATE_LIMITED" -> 429
    [] code = "IDEMPOTENCY_REQUIRED" -> 400
    [] code = "IDEMPOTENCY_REPLAY" -> 409
    [] code \in {"PAYMENT_REQUIRED", "PAYMENT_INVALID"} -> 402
    [] code = "NOT_READY" -> 503
    [] code = "INTERNAL_ERROR" -> 500
    [] OTHER -> 0

\* C24, as stated: every response with a status of 400 or above carries an
\* error code whose paired status is the status of the response.
C24_CodeStatusPairsFixed ==
  \A s \in Slots :
    (InFlight(s) /\ req[s].status >= 400)
      => PairedStatus(req[s].code) = req[s].status

\* C25: a request has at most one response sent, none while a stage is still
\* to run and exactly one once it has finished, and it leaves only with that
\* one response sent.
C25_ExactlyOneResponse ==
  /\ [](\A s \in Slots :
          /\ req[s].sent <= 1
          /\ req[s].pc = "finish" => req[s].sent = 1
          /\ req[s].pc \in {"idle", "verify", "body", "settle"} => req[s].sent = 0)
  /\ [][\A s \in Slots :
          (InFlight(s) /\ ~InFlight(s)') => req[s].sent = 1]_vars

C25_Witness ==
  \E s \in Slots :
    /\ req[s].pc = "finish" /\ req[s].sent = 1
    /\ Ran(req[s], "handler") /\ Ran(req[s], "settle") /\ req[s].status = 402

\* C26: a /readyz request whose probes have started is always answered; the
\* answer is 200 only if the RPC probe resolved before its timer and the
\* upstream probe, run after it when a URL is configured, came back with a
\* status below 500; any other outcome of the probes, the RPC timer firing
\* included, is answered 503 NOT_READY.
C26_ReadyzFailsClosed ==
  /\ [](ready.pc = "done" =>
          /\ ready.status = 200 =>
               /\ ready.rpc = "resolved"
               /\ ready.url => /\ ready.upstream.kind = "response"
                               /\ ready.upstream.statusCode < 500
          /\ (ready.status # 200 /\ ready.rpc # "unrun")
               => ready.status = 503 /\ ready.code = "NOT_READY"
          /\ ready.rpc = "timer" => ready.status = 503
          /\ ready.upstream # NoResponse => ready.rpc = "resolved")
  /\ (ready.pc \in {"rpc", "upstream"}) ~> (ready.pc = "done")

C26_Witness ==
  /\ ready.pc = "done" /\ ready.rpc = "timer"
  /\ ready.status = 503 /\ ready.code = "NOT_READY"
  /\ ready.served = 2

\* the position of a stage among those a request has run, 0 when it has not
StageIndex(rq, stage) ==
  IF Ran(rq, stage)
    THEN CHOOSE i \in 1..Len(rq.stages) : rq.stages[i] = stage
    ELSE 0

\* C27, as stated: the unpaid-attempt limiter decides on a request only after
\* the payment gate has decided on it, so a request it rejects has been
\* through the gate.
C27_UnpaidDecisionAfterGate ==
  \A s \in Slots :
    Ran(req[s], "unpaid")
      => /\ Ran(req[s], "gate")
         /\ StageIndex(req[s], "gate") < StageIndex(req[s], "unpaid")

\* C28: a keyed request that reaches the pre-check while another request
\* with the same key is in flight and has already run the handler is decided
\* on the ledger alone: it runs the handler too unless the key has a live
\* record, and no request in flight writes the ledger. Two requests with one
\* key can therefore both be verified and both run the handler.
C28_NoMutualExclusion ==
  /\ [][\A s, s2 \in Slots :
          (/\ s # s2
           /\ req[s].pc = "body" /\ req'[s].pc # "body"
           /\ Ran(req'[s], "precheck")
           /\ req[s].key \in Keys /\ req[s2].key = req[s].key
           /\ InFlight(s2) /\ Ran(req[s2], "handler"))
            => (Ran(req'[s], "handler") <=> ~StoreHas(cache, req[s].key, now))]_vars
  /\ [][cache' # cache => \E s \in Slots : Finalizing(s)]_vars

C28_Witness ==
  /\ ~config.x402DevBypass
  /\ ticks = 0
  /\ cache = <<>>
  /\ \E s, s2 \in Slots :
       /\ s # s2
       /\ req[s].key \in Keys /\ req[s2].key = req[s].key
       /\ \A x \in {s, s2} :
            /\ Ran(req[x], "verify") /\ Ran(req[x], "precheck")
            /\ Ran(req[x], "handler")
            /\ req[x].pc = "finish" /\ req[x].status = 200

\* a request enters the pipeline in this step
Arriving(s) == ~InFlight(s) /\ InFlight(s)'

\* C29: with any requests of the client in flight, an arriving request is
\* admitted by the global limiter exactly when the client's bucket is not full
\* for the window, its admission raises the stored count by exactly one (or
\* opens the window at one), no other step and no other client's request
\* changes that count, and the same holds for the unpaid-attempt limiter's
\* call on arrival; no count exceeds its bound.
C29_ConsumeAtomic ==
  /\ [](\A c \in Clients :
          /\ globalCounters[c].count <= config.rateLimitPerMin
          /\ unpaidCounters[c].count <= config.rateLimitUnpaidPerMin)
  /\ [][\A s \in Slots :
          Arriving(s) =>
            LET c == req'[s].client
                rejected == LastStage(req'[s]) = "global" /\ req'[s].status = 429
            IN /\ rejected <=> GlobalExhausted(c)
               /\ globalCounters'[c] = Charged(globalCounters[c], config.rateLimitPerMin)
               /\ ~rejected => globalCounters'[c] # globalCounters[c]
               /\ \A c2 \in Clients \ {c} :
                    /\ globalCounters'[c2] = globalCounters[c2]
                    /\ unpaidCounters'[c2] = unpaidCounters[c2]
               /\ unpaidCounters'[c] =
                    IF Ran(req'[s], "unpaid")
                      THEN Charged(unpaidCounters[c], config.rateLimitUnpaidPerMin)
                      ELSE unpaidCounters[c]]_vars
  /\ [][globalCounters' # globalCounters => \E s \in Slots : Arriving(s)]_vars

C29_Witness ==
  /\ ticks = 0
  /\ globalCounters["A"].count = config.rateLimitPerMin
  /\ \E s, s2 \in Slots :
       /\ req[s].client = "A" /\ req[s].pc = "body"
       /\ req[s2].client = "A" /\ req[s2].pc = "finish"
       /\ LastStage(req[s2]) = "global" /\ req[s2].status = 429

\* the key's stored counter is for the window of the current time and full
Exhausted(key) ==
  /\ globalCounters[key].windowStart = WindowStart(now)
  /\ globalCounters[key].count >= config.rateLimitPerMin

\* C30: a consume call returns false exactly when the key's stored counter is
\* for the current window with count >= limit, and such a call changes no
\* counter: the key's windowStart and count stay, and so does every other key.
C30_RejectedConsumeChangesNothing ==
  [][\A key \in Clients :
       (now' = now /\ lastCall' # lastCall /\ lastCall'.key = key)
         => /\ ~lastCall'.ok <=> Exhausted(key)
            /\ ~lastCall'.ok => globalCounters' = globalCounters]_vars

C30_Witness ==
  /\ lastCall.called /\ ~lastCall.ok
  /\ config.rateLimitPerMin >= 2
  /\ globalCounters[lastCall.key] = lastCall.before
  /\ lastCall.before.count = config.rateLimitPerMin
  /\ \E other \in Clients \ {lastCall.key} :
       /\ globalCounters[other] # NoCounter
       /\ globalCounters[other].windowStart # WindowStart(now)

\* C31: right after markSeen(K), at the same clock reading, has(K) is true,
\* whatever the ledger held before, a full ledger included.
C31_CommitThenSeen ==
  (ledgerOp.op = "markSeen" /\ ledgerOp.at = now)
    => StoreHas(cache, ledgerOp.key, now)

C31_Witness ==
  /\ ledgerOp.op = "markSeen" /\ ledgerOp.at = now
  /\ Len(ledgerOp.before) = StoreMax
  /\ CacheIndex(ledgerOp.before, ledgerOp.key) = {}
  /\ StoreHas(cache, ledgerOp.key, now)

\* C32: has(K) is true exactly when K was committed, has not been evicted
\* since, and its last commit is no more than the ttl ago; lookups in between
\* do not count. A record older than the ttl is reported unseen.
C32_SeenIffLiveRecord ==
  ledgerOp.op = "has"
    => (ledgerOp.seen <=> /\ ledgerOp.last[ledgerOp.key] >= 0
                          /\ ledgerOp.key \notin ledgerOp.gone
                          /\ ledgerOp.at - ledgerOp.last[ledgerOp.key] <= TTL_MS)

C32_Witness ==
  /\ ledgerOp.op = "has" /\ ~ledgerOp.seen
  /\ ledgerOp.key \in ledgerOp.looked
  /\ ledgerOp.key \in CacheKeys(cache)
  /\ ledgerOp.at - ledgerOp.last[ledgerOp.key] = TTL_MS + 1

\* the last call committed a key the full ledger did not hold
FullCommit ==
  /\ ledgerOp.op = "markSeen"
  /\ ledgerOp.key \notin CacheKeys(ledgerOp.before)
  /\ Len(ledgerOp.before) = StoreMax

\* C33: the ledger never holds more than its capacity, and a commit of a new
\* key into a full ledger removes exactly the record committed longest ago,
\* keeps every other record as it was and adds the new one.
C33_CapacityAndLruEviction ==
  /\ Len(cache) <= StoreMax
  /\ Cardinality(CacheKeys(cache)) = Len(cache)
  /\ FullCommit =>
       LET before == ledgerOp.before
           victim == before[1]
       IN /\ \A i \in 1..Len(before) : victim.createdAt <= before[i].createdAt
          /\ victim.key \notin CacheKeys(cache)
          /\ \A i \in 2..Len(before) : \E j \in 1..Len(cache) : cache[j] = before[i]
          /\ ledgerOp.key \in CacheKeys(cache)
          /\ Len(cache) = StoreMax

C33_Witness ==
  /\ FullCommit
  /\ ledgerOp.before[1].createdAt < ledgerOp.before[2].createdAt
  /\ ledgerOp.before[1].key \in ledgerOp.gone
  /\ ledgerOp.before[2].key \in CacheKeys(cache)

PaidModes == {"x402", "dev_bypass"}

ContextSound(ctx) ==
  /\ ctx.paid => ctx.paidMode \in PaidModes
  /\ ctx.txHash # NoTx => ctx.paid

\* C34: in every request context, in flight or as the response hooks leave
\* it, paid implies a paidMode of x402 or dev_bypass and a set txHash implies
\* paid; the payment context attached by the gate has a mode whenever it is
\* paid; and txHash is written only into a context that was paid already.
C34_PaidImpliesModeTxImpliesPaid ==
  /\ [](/\ ContextSound(closed)
        /\ \A s \in Slots :
             /\ ContextSound(req[s].ctx)
             /\ req[s].raw.paid => req[s].raw.paidMode \in PaidModes)
  /\ [][\A s \in Slots :
          (Finalizing(s) /\ closed'.txHash # NoTx)
            => req[s].ctx.paid /\ req[s].ctx.txHash = NoTx]_vars

C34_Witness ==
  /\ closed.txHash = Tx /\ closed.paid /\ closed.paidMode = "x402"
  /\ closed.idempotencyKey \in Keys

\* C35, as stated: in facilitator mode a request has a payment context or a
\* request context with paid = true only once the facilitator has verified
\* its credential.
C35_PaidOnlyOnceVerified ==
  \A s \in Slots :
    (UsesFacilitator(config) /\ (req[s].raw.paid \/ req[s].ctx.paid))
      => Ran(req[s], "verify") /\ req[s].pay = "valid"

\* C36, as stated: a fault handed to the error handler that is not an
\* AppError is answered with status 500 and code INTERNAL_ERROR.
C36_UnclassifiedFaultIs500 ==
  \A s \in Slots :
    (req[s].fault # "" /\ req[s].fault # "AppError")
      => req[s].status = 500 /\ req[s].code = "INTERNAL_ERROR"

\* C37: no request in flight has txHash set in its context, so the handler
\* reads it unset and every receipt carries txHash ""; the context with a
\* txHash appears only as the response hooks leave it at finalization.
C37_HandlerSeesNoTxHash ==
  /\ [](\A s \in Slots :
          /\ req[s].ctx.txHash = NoTx
          /\ req[s].receiptTx = "")
  /\ [][closed' # closed => \E s \in Slots : Finalizing(s)]_vars

C37_Witness ==
  \E s \in Slots :
    /\ req[s].pc = "finish" /\ req[s].status = 200
    /\ Ran(req[s], "handler") /\ Ran(req[s], "settle")
    /\ req[s].paymentResponse = Tx
    /\ req[s].receiptTx = ""
    /\ closed.txHash = Tx

\* C38: only markSeen changes the ledger: a lookup leaves its records, their
\* order and their start times as they were. Every stored record therefore
\* dates from its key's last commit, and the records stand in the order of
\* their last commits, the oldest commit first in line for eviction.
C38_LookupReadOnly ==
  /\ [][cache' # cache
          => ledgerOp'.op = "markSeen" /\ ledgerOp'.before = cache]_vars
  /\ [](/\ \A i \in 1..Len(cache) :
             cache[i].createdAt = ledgerOp.last[cache[i].key]
        /\ \A i, j \in 1..Len(cache) :
             i < j => cache[i].createdAt <= cache[j].createdAt)

C38_Witness ==
  /\ ledgerOp.op = "has" /\ ledgerOp.seen
  /\ Len(cache) = StoreMax
  /\ cache[1].key = ledgerOp.key
  /\ cache[1].createdAt < cache[2].createdAt
  /\ cache[2].createdAt < ledgerOp.at

\* what the next consume call of a client would answer on each limiter
NextOutcome(global, unpaid, client) ==
  <<Consume(global, client, config.rateLimitPerMin, now).ok,
    Consume(unpaid, client, config.rateLimitUnpaidPerMin, now).ok>>

\* C39: a request of one client changes no counter of another client on
\* either limiter, nor what the other client's next consume call answers; a
\* request that stops at the global limiter, or is on a route without the
\* unpaid-attempt limiter, changes no unpaid-attempt counter; and the charge
\* at finalization changes no global counter.
C39_LimiterIsolation ==
  [][\A s \in Slots :
       /\ Arriving(s) =>
            /\ \A other \in Clients \ {req'[s].client} :
                 /\ globalCounters'[other] = globalCounters[other]
                 /\ unpaidCounters'[other] = unpaidCounters[other]
                 /\ NextOutcome(globalCounters', unpaidCounters', other)
                      = NextOutcome(globalCounters, unpaidCounters, other)
            /\ ~Ran(req'[s], "unpaid") => unpaidCounters' = unpaidCounters
       /\ Finalizing(s) =>
            /\ globalCounters' = globalCounters
            /\ \A other \in Clients \ {req[s].client} :
                 unpaidCounters'[other] = unpaidCounters[other]]_vars

C39_Witness ==
  /\ ticks = 0
  /\ globalCounters["A"].count = config.rateLimitPerMin
  /\ unpaidCounters["A"] = NoCounter
  /\ globalCounters["B"].count = 1
  /\ unpaidCounters["B"].count = 1
  /\ \E s \in Slots : req[s].client = "B" /\ req[s].pc = "finish" /\ req[s].status = 402

\* C40: within one call of withTimeout the returned promise settles once and
\* keeps its outcome; it carries the wrapped promise's outcome, with the timer
\* cleared, when that promise settled first, and the NOT_READY rejection when
\* the timer fired first, whatever the wrapped promise does later; the handler
\* acts on that outcome.
C40_WithTimeoutSettlesOnce ==
  /\ [][(ready.wt.outer \notin {"none", "pending"} /\ ready'.served = ready.served)
          => ready'.wt.outer = ready.wt.outer]_vars
  /\ [](LET wt == ready.wt
        IN /\ wt.outer = "NOT_READY" <=> wt.timer = "fired"
           /\ wt.outer \in {"resolved", "rejected"}
                => wt.timer = "cleared" /\ wt.inner = wt.outer
           /\ wt.outer = "pending" <=> ready.pc = "rpc"
           /\ wt.outer = "NOT_READY" => ready.rpc = "timer"
           /\ wt.outer \in {"resolved", "rejected"} => ready.rpc = wt.outer)

C40_Witness ==
  /\ ready.wt.outer = "NOT_READY"
  /\ ready.wt.inner = "resolved"
  /\ ready.wt.timer = "fired"
  /\ ready.status = 503 /\ ready.code = "NOT_READY"

====
